---- MODULE Spec2Model ----
(***************************************************************************)
(* Image resource layer of the terminal: Image (reference-counted pixel    *)
(* buffer with a deleter), ImageRef (handle), ImagePool (std::list<Image>  *)
(* with create / remove).                                                  *)
(*                                                                         *)
(* Images live at addresses.  ImagePool::images_ is the list of addresses  *)
(* of the Images it stores; an address whose Image was erased keeps the    *)
(* last bytes written to it (stale memory) and may be handed out again by  *)
(* a later allocation.  An ImageRef holds a raw pointer and nothing else,   *)
(* so the handles that exist are kept as a bag of pointers: refs[p] is the *)
(* number of constructed handles whose image_ is p (p = Null: handles that *)
(* were moved from).                                                       *)
(***************************************************************************)
EXTENDS Integers, Sequences, FiniteSets, TLC

\* ------------------------------------------------------------- bounds
MaxAddr == 2
MaxHandles == 2
MaxRef == 2
MaxDim == 2
MaxSlack == 1
MaxCount == 1
MaxUnder == 1
MaxSpan == 2

\* ------------------------------------------------- program constants
Null == 0
Opaque == 255
BytesPerPixel == 4

Addr == 1..MaxAddr
Ptr == {Null} \cup Addr

VARIABLES
    heap,     \* Addr -> the Image object (or its stale bytes) at that address
    images,   \* ImagePool::images_ : addresses of the stored Images, in order
    refs,     \* Ptr -> number of constructed ImageRef objects with that image_
    fault,    \* "none", or how the process ended (crash, std::terminate)
    hist,     \* one Image and the handle copies / destructions it has seen
    last,     \* the last operation: name, result, deleter calls, bytes out of bounds
    raster,   \* a RasterizedImage: its ImageRef image and its cellSpan
    frag,     \* an ImageFragment: its ImageRef image_, offset_ and size_
    ret,      \* what the last cellSize() / data() call returned
    atlas,    \* ImageRenderer::atlas_ : the ImageRef keys of its entries
    cellSize, \* ImageRenderer::cellSize_
    sent      \* what the last ImageRenderer call asked of the atlas allocator
              \* and of the command listener, in order

vars == <<heap, images, refs, fault, hist, last, raster, frag, ret, atlas, cellSize, sent>>

\* The objects built on top of the handles.
view == <<raster, frag, ret>>

renderer == <<atlas, cellSize, sent>>

\* ----------------------------------------------------------- helpers
InPool(imgs, a) == \E i \in 1..Len(imgs) : imgs[i] = a

imageCount == Len(images)

IndexOf(imgs, a) == CHOOSE i \in 1..Len(imgs) : imgs[i] = a

EraseAt(imgs, i) == [j \in 1..(Len(imgs) - 1) |-> IF j < i THEN imgs[j] ELSE imgs[j + 1]]

NoImage == [alive |-> FALSE, data |-> <<>>, size |-> [width |-> 0, height |-> 0],
            deleter |-> "none", refCount |-> 0]

\* Image::Image: stores the buffer and the size as given, count 0.
ImageNew(data, size, deleter) ==
    [alive |-> TRUE, data |-> data, size |-> size, deleter |-> deleter, refCount |-> 0]

\* The part of the state the calls of one operation thread through:
\* m.heap, m.images, m.fault, and two counts of what the calls did so far:
\* m.torn, the deleter invocations, and m.oob, the bytes written outside a
\* buffer.
Machine == [heap |-> heap, images |-> images, fault |-> "none", torn |-> 0, oob |-> 0]

Crash(m, why) == [m EXCEPT !.fault = why]

\* ------------------------------------------- fragments and rasters
NoRaster == [live |-> FALSE, image |-> Null, cellSpan |-> [width |-> 0, height |-> 0]]

NoFragment == [live |-> FALSE, image |-> Null, offset |-> [row |-> 0, column |-> 0],
               size |-> [width |-> 0, height |-> 0]]

NoRet == [kind |-> "none"]

\* ---------------------------------------------------------- ImagePool
\* ImagePool::remove erasing from the node found through the end of the list.
RemoveThroughEnd(m, a) ==
    IF InPool(m.images, a)
    THEN LET i == IndexOf(m.images, a)
             gone == {m.images[j] : j \in i..Len(m.images)} IN
         [m EXCEPT !.images = SubSeq(@, 1, i - 1),
                   !.heap = [b \in Addr |->
                                IF b \in gone
                                THEN [m.heap[b] EXCEPT !.alive = FALSE, !.data = <<>>]
                                ELSE m.heap[b]]]
    ELSE m

\* ImagePool::remove erasing the front node when the scan finds nothing.
RemoveEraseFirst(m, a) ==
    IF Len(m.images) = 0
    THEN m
    ELSE LET b == m.images[1] IN
         [m EXCEPT !.images = EraseAt(@, 1), !.heap[b].alive = FALSE, !.heap[b].data = <<>>]

\* ImagePool::remove: linear scan by address, erase when found.  Erasing
\* ends the Image's lifetime; its buffer is released, the other members
\* stay behind as stale bytes.
Remove(m, a) ==
    IF InPool(m.images, a)
    THEN [m EXCEPT !.images = EraseAt(@, IndexOf(m.images, a)),
                   !.heap[a].alive = FALSE,
                   !.heap[a].data = <<>>]
    ELSE m

\* ------------------------------------------------------------- Image
\* deleter_(*this): the pool's lambda calls remove; an empty std::function
\* throws std::bad_function_call; a caller's own deleter only gets told.
Deleter(m, a) ==
    LET m1 == [m EXCEPT !.torn = @ + 1] IN
    CASE m.heap[a].deleter = "pool" -> Remove(m1, a)
      [] m.heap[a].deleter = "none" -> Crash(m1, "bad_function_call")
      [] OTHER -> m1

\* Image::ref without the increment.
RefNoCount(m, a) == m

\* Image::ref on a live object (or on its stale bytes).
RefLive(m, a) == [m EXCEPT !.heap[a].refCount = @ + 1]

\* Image::unref without the deleter call.
UnrefNoDeleter(m, a) == [m EXCEPT !.heap[a].refCount = @ - 1]

\* Image::unref on a live object (or on its stale bytes).
UnrefLive(m, a) ==
    LET m1 == [m EXCEPT !.heap[a].refCount = @ - 1] IN
    IF m1.heap[a].refCount = 0 THEN Deleter(m1, a) ELSE m1

\* image_->ref() through the pointer p of a handle.  A null pointer and a
\* pointer to an erased Image are undefined behaviour: the process may
\* trap, or the access may go through (on the stale bytes, for an erased
\* Image; dropped, for a null pointer).
Ref(m, p) ==
    IF m.fault # "none" THEN {m}
    ELSE IF p = Null THEN {Crash(m, "null_deref"), m}
    ELSE IF ~m.heap[p].alive THEN {Crash(m, "use_after_free"), RefLive(m, p)}
    ELSE {RefLive(m, p)}

Unref(m, p) ==
    IF m.fault # "none" THEN {m}
    ELSE IF p = Null THEN {Crash(m, "null_deref"), m}
    ELSE IF ~m.heap[p].alive THEN {Crash(m, "use_after_free"), UnrefLive(m, p)}
    ELSE {UnrefLive(m, p)}

\* ImagePool::create replacing the list by the new node.
CreateDropsOthers(m, a, data, size) ==
    RefLive([m EXCEPT !.heap[a] = ImageNew(data, size, "pool"), !.images = <<a>>], a)

\* ImagePool::create(Image::Data, Size): emplace_back constructs the Image
\* at a fresh list node (address a) with the pool's deleter, then
\* ImageRef{images_.back()} takes the first reference.  The buffer length
\* is not compared with the size.
Create(m, a, data, size) ==
    RefLive([m EXCEPT !.heap[a] = ImageNew(data, size, "pool"), !.images = Append(@, a)], a)

\* The loop of ImagePool::create(std::vector<RGBColor>, Size): colour k is
\* written to data[i .. i+3], i advancing by four; a write at an index that
\* is not below data.size() lands outside the buffer and is counted in oob.
RECURSIVE WriteColors(_, _, _, _)
WriteColors(data, colors, k, oob) ==
    IF k > Len(colors) THEN [data |-> data, oob |-> oob]
    ELSE LET i == BytesPerPixel * (k - 1)
             c == colors[k]
             px == <<c.red, c.green, c.blue, Opaque>>
             inside == {j \in 1..BytesPerPixel : i + j <= Len(data)}
         IN WriteColors(
                [n \in 1..Len(data) |->
                    IF n > i /\ n <= i + BytesPerPixel THEN px[n - i] ELSE data[n]],
                colors, k + 1, oob + (BytesPerPixel - Cardinality(inside)))

\* The colour loop with red and blue swapped.
ExpandBGR(colors, size) ==
    WriteColors([n \in 1..(size.width * size.height * BytesPerPixel) |-> 0],
                [k \in 1..Len(colors) |->
                    [red |-> colors[k].blue, green |-> colors[k].green, blue |-> colors[k].red]],
                1, 0)

\* data.resize(width * height * 4) value-initialises the bytes to 0.
ExpandRGB(colors, size) ==
    WriteColors([n \in 1..(size.width * size.height * BytesPerPixel) |-> 0], colors, 1, 0)

\* The whole overload: expand, then create(data, _size).  Writes outside
\* the buffer are undefined behaviour: the process may trap (or abort on
\* the corrupted heap), or the writes land in neighbouring memory and the
\* call goes on.
CreateFromColors(m, a, colors, size) ==
    LET x == ExpandRGB(colors, size) IN
    LET m1 == [m EXCEPT !.oob = x.oob] IN
    IF x.oob = 0 THEN {Create(m, a, x.data, size)}
    ELSE {Crash(m1, "heap_overflow"), Create(m1, a, x.data, size)}

\* ------------------------------------------------------------ history
\* hist follows one Image from the create that returned it (hist.a, Null
\* for none): the handle copy constructions from, and the destructions of,
\* handles to it, for as long as nothing else touches it.  Any Image may be
\* the one followed: a create starts following its Image when told to (w).
Unwatched == [a |-> Null, copies |-> 0, destroys |-> 0]

Watch(a) == [a |-> a, copies |-> 0, destroys |-> 0]

HistCopy(hs, p) ==
    IF p # Null /\ hs.a = p
    THEN IF hs.copies < MaxCount THEN [hs EXCEPT !.copies = @ + 1] ELSE Unwatched
    ELSE hs

HistDestroy(hs, p) ==
    IF p # Null /\ hs.a = p THEN [hs EXCEPT !.destroys = @ + 1] ELSE hs

HistTouch(hs, p) == IF p # Null /\ hs.a = p THEN Unwatched ELSE hs

HistNorm(hs, hp) == IF hs.a # Null /\ ~hp[hs.a].alive THEN Unwatched ELSE hs

\* ------------------------------------------------------------ ImageRef
Held(p) == refs[p] > 0

RECURSIVE Sum(_, _)
Sum(f, S) == IF S = {} THEN 0 ELSE LET x == CHOOSE y \in S : TRUE IN f[x] + Sum(f, S \ {x})

\* Room for one more handle object.
Room == Sum(refs, Ptr) < MaxHandles

Plus(rs, p) == [rs EXCEPT ![p] = @ + 1]

Minus(rs, p) == [rs EXCEPT ![p] = @ - 1]

\* The Images client code can name: the one a constructed handle returns
\* from get(), and an Image object the client constructed itself.
Nameable(a) == Held(a) \/ (heap[a].alive /\ ~InPool(images, a))

CanRef(p) == p \in Addr => heap[p].refCount < MaxRef

CanUnref(p) == p \in Addr => heap[p].refCount > -MaxUnder

Running == fault = "none"

\* The bytes of an erased Image that no handle points to can never be
\* read again (an allocation overwrites every member): they are kept as
\* NoImage.
Scrub(hp, rs) == [a \in Addr |-> IF hp[a].alive \/ rs[a] > 0 THEN hp[a] ELSE NoImage]

\* The state after an operation whose calls left m, the handles rs and the
\* history hs, and ended the process with f ("none": it goes on).  Nothing
\* of a process that ended is kept but how it ended.
CommitPool(m, rs, hs, f, op) ==
    /\ fault' = f
    /\ last' = [op |-> op,
                res |-> IF f # "none" THEN f ELSE IF m.fault # "none" THEN m.fault ELSE "ok",
                torn |-> m.torn, oob |-> m.oob]
    /\ IF f = "none"
       THEN /\ heap' = Scrub(m.heap, rs)
            /\ images' = m.images
            /\ refs' = rs
            /\ hist' = HistNorm(hs, m.heap)
       ELSE /\ heap' = [a \in Addr |-> NoImage]
            /\ images' = <<>>
            /\ refs' = [p \in Ptr |-> 0]
            /\ hist' = Unwatched

\* An operation of Image, ImageRef or ImagePool: no RasterizedImage and no
\* ImageFragment is touched.
Commit(m, rs, hs, f, op) ==
    /\ CommitPool(m, rs, hs, f, op)
    /\ UNCHANGED <<view, renderer>>

\* Where the allocator may put a new Image: at any free address some handle
\* still points to (each is a different aliasing), or at a free address no
\* handle points to (all alike: the first one).
Allocatable(a) ==
    /\ ~heap[a].alive
    /\ Held(a) \/ \A b \in Addr : (b < a /\ ~heap[b].alive) => Held(b)

\* ------------------------------------------------------------ actions
\* ImageRef h = pool.create(data, size);
PoolCreate(a, data, size, w) ==
    /\ Running
    /\ Room
    /\ Allocatable(a)
    /\ LET m == Create(Machine, a, data, size) IN
       Commit(m, Plus(refs, a), IF w THEN Watch(a) ELSE hist, m.fault, "create")

\* ImageRef h = pool.create(colors, size);
PoolCreateRGB(a, colors, size, w) ==
    /\ Running
    /\ Room
    /\ Allocatable(a)
    /\ \E m \in CreateFromColors(Machine, a, colors, size) :
          Commit(m, Plus(refs, a), IF w THEN Watch(a) ELSE hist, m.fault, "createRGB")

\* ~ImageRef of a handle whose image_ is p: unref when p is not null.  The
\* destructor is noexcept: an exception leaving the deleter ends the
\* process in std::terminate.
Destroy(p) ==
    /\ Running
    /\ Held(p)
    /\ CanUnref(p)
    /\ \E m \in (IF p = Null THEN {Machine} ELSE Unref(Machine, p)) :
          Commit(m, Minus(refs, p), HistDestroy(hist, p),
                 IF m.fault = "bad_function_call" THEN "terminate" ELSE m.fault,
                 IF p = Null THEN "destroy_empty" ELSE "destroy")

\* The copy constructor without image_->ref().
CopyConstructNoRef(p) ==
    /\ Running
    /\ Room
    /\ Held(p)
    /\ Commit(Machine, Plus(refs, p), HistCopy(hist, p), "none", "copy")

\* ImageRef h{v}, v.image_ = p:  image_ = v.image_; image_->ref();
CopyConstruct(p) ==
    /\ Running
    /\ Room
    /\ Held(p)
    /\ CanRef(p)
    /\ \E m \in Ref(Machine, p) :
          Commit(m, Plus(refs, p), HistCopy(hist, p), m.fault, "copy")

\* The move constructor behaving as the copy constructor.
MoveConstructAsCopy(p) ==
    /\ Running
    /\ Room
    /\ Held(p)
    /\ CanRef(p)
    /\ \E m \in Ref(Machine, p) :
          Commit(m, Plus(refs, p), hist, m.fault, "move")

\* ImageRef h{std::move(v)}, v.image_ = p:  image_ = v.image_; v.image_ = nullptr;
\* One handle with p before (v) and one after (h); v is now a null handle.
MoveConstruct(p) ==
    /\ Running
    /\ Room
    /\ Held(p)
    /\ Commit(Machine, Plus(refs, Null), hist, "none", "move")

\* h = v, h.image_ = p, v.image_ = q, two different handle objects:
\*     image_->unref(); image_ = v.image_; image_->ref();
\* An exception from the deleter leaves operator= before image_ is set and
\* reaches the caller.
CopyAssign(p, q) ==
    /\ Running
    /\ Held(p)
    /\ Held(q)
    /\ p = q => refs[p] >= 2
    /\ CanUnref(p)
    /\ CanRef(q)
    /\ \E m1 \in Unref(Machine, p) : \E m \in Ref(m1, q) :
          Commit(m, IF m.fault = "none" THEN Plus(Minus(refs, p), q) ELSE refs,
                 HistTouch(HistTouch(hist, p), q),
                 IF m.fault = "bad_function_call" THEN "none" ELSE m.fault, "assign")

\* h = h, h = std::move(h):  &v == this, nothing is done.
SelfAssign(p) ==
    /\ Running
    /\ Held(p)
    /\ Commit(Machine, refs, hist, "none", "assign_self")

\* Move assignment that unrefs the target's old Image first.
MoveAssignReleasing(p, q) ==
    /\ Running
    /\ Held(p)
    /\ Held(q)
    /\ p = q => refs[p] >= 2
    /\ CanUnref(p)
    /\ \E m \in (IF p = Null THEN {Machine} ELSE Unref(Machine, p)) :
          Commit(m, Plus(Minus(refs, p), Null), hist, m.fault, "move_assign")

\* h = std::move(v), h.image_ = p, v.image_ = q, two different handle objects:
\*     image_ = v.image_; v.image_ = nullptr;
MoveAssign(p, q) ==
    /\ Running
    /\ Held(p)
    /\ Held(q)
    /\ p = q => refs[p] >= 2
    /\ Commit(Machine, Plus(Minus(refs, p), Null), hist, "none", "move_assign")

\* ImageRef h{image};  (also how an ImageFragment takes its reference)
RefFromImage(a) ==
    /\ Running
    /\ Room
    /\ Nameable(a)
    /\ CanRef(a)
    /\ \E m \in Ref(Machine, a) :
          Commit(m, Plus(refs, a), HistTouch(hist, a), m.fault, "ref_image")

\* pool.remove(image);
PoolRemove(a) ==
    /\ Running
    /\ Nameable(a)
    /\ Commit(Remove(Machine, a), refs, HistTouch(hist, a), "none",
              IF InPool(images, a) THEN "remove" ELSE "remove_miss")

\* Image img{data, size, deleter};  an Image the client constructs itself,
\* outside any pool: with the default (empty) deleter or with its own.
NewImage(a, data, size, deleter) ==
    /\ Running
    /\ Allocatable(a)
    /\ Commit([Machine EXCEPT !.heap[a] = ImageNew(data, size, deleter)], refs,
              hist, "none", "new_image")

\* The client's Image goes out of scope.
DeleteImage(a) ==
    /\ Running
    /\ heap[a].alive
    /\ ~InPool(images, a)
    /\ Commit([Machine EXCEPT !.heap[a].alive = FALSE, !.heap[a].data = <<>>], refs,
              hist, "none", "delete_image")

\* img.ref();
ImageRefCall(a) ==
    /\ Running
    /\ heap[a].alive
    /\ ~InPool(images, a)
    /\ CanRef(a)
    /\ Commit(RefLive(Machine, a), refs, hist, "none", "ref")

\* img.unref();  an exception from the deleter reaches the caller.
ImageUnrefCall(a) ==
    /\ Running
    /\ heap[a].alive
    /\ ~InPool(images, a)
    /\ CanUnref(a)
    /\ Commit(UnrefLive(Machine, a), refs, hist, "none", "unref")

\* ------------------------------------------------------ ImageFragment
\* Bytes a read past the end of a buffer may find.
Junk == {0, Opaque}

\* fullImageData[i], i counted from 0.
ByteAt(full, i, junk) == IF i >= 0 /\ i < Len(full) THEN full[i + 1] ELSE junk

\* One turn of the loop of ImageFragment::data: std::copy of the
\* size_.width * 4 bytes that start at &fullImageData[y * size_.width * 4].
\* Neither offset_ nor the width of the Image enters the index.
CopyRow(full, y, size, junk) ==
    [x \in 1..(size.width * BytesPerPixel) |->
        ByteAt(full, y * size.width * BytesPerPixel + (x - 1), junk)]

RECURSIVE CopyRows(_, _, _, _)
CopyRows(full, y, size, junk) ==
    IF y >= size.height
    THEN <<>>
    ELSE CopyRow(full, y, size, junk) \o CopyRows(full, y + 1, size, junk)

\* How many of the bytes the loop reads lie past the end of the buffer.
OutsideReads(full, size) ==
    Cardinality({c \in (0..(size.height - 1)) \X (0..(size.width * BytesPerPixel - 1)) :
                    c[1] * size.width * BytesPerPixel + c[2] >= Len(full)})

\* ImageFragment::data on the buffer full.  Reading past the end of the
\* buffer is undefined behaviour: the process may trap, or the copy goes
\* on with whatever bytes lie there.
FragmentData(full, size) ==
    IF OutsideReads(full, size) = 0
    THEN {[fault |-> "none", data |-> CopyRows(full, 0, size, 0)]}
    ELSE {[fault |-> "heap_overread", data |-> <<>>]}
         \cup {[fault |-> "none", data |-> CopyRows(full, 0, size, j)] : j \in Junk}

\* ---------------------------------------------------- RasterizedImage
Abs(n) == IF n < 0 THEN -n ELSE n

\* Integer division of C++: the quotient truncated toward zero.  Division
\* by zero is undefined behaviour: a trap, or (on hardware without one) a
\* quotient of 0.
IntDiv(a, b) ==
    IF b = 0
    THEN {[fault |-> "division_by_zero", q |-> 0], [fault |-> "none", q |-> 0]}
    ELSE {[fault |-> "none",
           q |-> IF (a < 0) = (b < 0) THEN Abs(a) \div Abs(b) ELSE -(Abs(a) \div Abs(b))]}

\* Size / Size: each axis divided on its own.
SizeDiv(size, span) ==
    {[fault |-> IF w.fault # "none" THEN w.fault ELSE h.fault,
      size |-> [width |-> w.q, height |-> h.q]] :
        w \in IntDiv(size.width, span.width), h \in IntDiv(size.height, span.height)}

\* The handles to p that are members of the RasterizedImage and of the
\* ImageFragment.
ViewRefs(p) ==
    (IF raster.live /\ raster.image = p THEN 1 ELSE 0)
        + (IF frag.live /\ frag.image = p THEN 1 ELSE 0)

\* The state of raster, frag and ret after an operation that ended the
\* process with f ("none": it goes on).
SetView(f, r, fr, rt) ==
    /\ IF f = "none"
       THEN raster' = r /\ frag' = fr /\ ret' = rt
       ELSE raster' = NoRaster /\ frag' = NoFragment /\ ret' = NoRet
    /\ UNCHANGED renderer

\* RasterizedImage r{pool.create(data, size), span};  the handle create
\* returns becomes r.image.
CreateRaster(a, data, size, span) ==
    /\ Running
    /\ Room
    /\ ~raster.live
    /\ ~frag.live
    /\ images = <<>>
    /\ Allocatable(a)
    /\ LET m == Create(Machine, a, data, size) IN
       /\ CommitPool(m, Plus(refs, a), hist, m.fault, "rasterize")
       /\ SetView(m.fault, [live |-> TRUE, image |-> a, cellSpan |-> span], frag, NoRet)

\* r.cellSize():  image.get().size() / cellSpan.
RasterCellSize ==
    /\ Running
    /\ raster.live
    /\ \E d \in SizeDiv(heap[raster.image].size, raster.cellSpan) :
          /\ CommitPool(Machine, refs, hist, d.fault, "cellSize")
          /\ SetView(d.fault, raster, frag, [kind |-> "size", size |-> d.size])

\* r.fragment(pos):  cellUnitWidth = image.get().width() / cellSpan.width;
\* pixelOffset = {pos.row * image.get().width(), pos.column * cellUnitWidth};
\* ImageFragment{image.get(), pixelOffset, cellSpan}.  The position is not
\* compared with cellSpan, and the fragment's size is cellSpan itself.
RasterFragment(pos) ==
    /\ Running
    /\ raster.live
    /\ ~frag.live
    /\ Room
    /\ CanRef(raster.image)
    /\ \E d \in IntDiv(heap[raster.image].size.width, raster.cellSpan.width) :
          IF d.fault # "none"
          THEN /\ CommitPool(Machine, refs, hist, d.fault, "fragment")
               /\ SetView(d.fault, raster, frag, NoRet)
          ELSE \E m \in Ref(Machine, raster.image) :
                  /\ CommitPool(m, Plus(refs, raster.image), hist, m.fault, "fragment")
                  /\ SetView(m.fault, raster,
                             [live |-> TRUE, image |-> raster.image,
                              offset |-> [row |-> pos.row * heap[raster.image].size.width,
                                          column |-> pos.column * d.q],
                              size |-> raster.cellSpan],
                             NoRet)

\* ImageFragment f{h.get(), offset, size};  image_{_image} takes a
\* reference; the rectangle is not compared with the Image's size.
NewFragment(a, offset, size) ==
    /\ Running
    /\ Held(a)
    /\ heap[a].alive
    /\ ~frag.live
    /\ Room
    /\ CanRef(a)
    /\ CommitPool(RefLive(Machine, a), Plus(refs, a), hist, "none", "new_fragment")
    /\ SetView("none", raster, [live |-> TRUE, image |-> a, offset |-> offset, size |-> size], NoRet)

\* f.data()
FragmentDataCall ==
    /\ Running
    /\ frag.live
    /\ heap[frag.image].alive
    /\ \E d \in FragmentData(heap[frag.image].data, frag.size) :
          /\ CommitPool([Machine EXCEPT !.oob = OutsideReads(heap[frag.image].data, frag.size)],
                        refs, hist, d.fault, "data")
          /\ SetView(d.fault, raster, frag, [kind |-> "data", data |-> d.data])

\* ~ImageFragment: its image_ is destroyed.
DropFragment ==
    /\ Running
    /\ frag.live
    /\ CanUnref(frag.image)
    /\ \E m \in Unref(Machine, frag.image) :
          LET f == IF m.fault = "bad_function_call" THEN "terminate" ELSE m.fault IN
          /\ CommitPool(m, Minus(refs, frag.image), hist, f, "drop_fragment")
          /\ SetView(f, raster, NoFragment, NoRet)

\* ~RasterizedImage: its image is destroyed.
DropRaster ==
    /\ Running
    /\ raster.live
    /\ CanUnref(raster.image)
    /\ \E m \in Unref(Machine, raster.image) :
          LET f == IF m.fault = "bad_function_call" THEN "terminate" ELSE m.fault IN
          /\ CommitPool(m, Minus(refs, raster.image), hist, f, "drop_raster")
          /\ SetView(f, NoRaster, frag, NoRet)

\* ------------------------------------------------------ ImageRenderer
\* atlas_.clear(): every entry is destroyed, and with it its ImageRef key.
RECURSIVE AtlasClear(_, _)
AtlasClear(ms, keys) ==
    IF keys = <<>>
    THEN ms
    ELSE AtlasClear(UNION {Unref(m, Head(keys)) : m \in ms}, Tail(keys))

RECURSIVE MinusAll(_, _)
MinusAll(rs, keys) ==
    IF keys = <<>> THEN rs ELSE MinusAll(Minus(rs, Head(keys)), Tail(keys))

\* renderer.renderImage(image, offset, extent): formats the three
\* arguments to std::cout.  Nothing is looked up in atlas_, nothing is
\* asked of the allocator, nothing is sent to commandListener_.
RenderImage(a, offset, extent) ==
    /\ Running
    /\ Nameable(a)
    /\ heap[a].alive
    /\ CommitPool(Machine, refs, hist, "none", "renderImage")
    /\ atlas' = atlas
    /\ cellSize' = cellSize
    /\ sent' = <<>>
    /\ UNCHANGED view

\* renderer.setCellSize(size):  cellSize_ = _cellSize;
SetCellSize(size) ==
    /\ Running
    /\ CommitPool(Machine, refs, hist, "none", "setCellSize")
    /\ atlas' = atlas
    /\ cellSize' = size
    /\ sent' = <<>>
    /\ UNCHANGED view

\* renderer.clearCache() that empties the pool as well.
ClearCacheEvicting ==
    /\ Running
    /\ CommitPool([Machine EXCEPT !.images = <<>>,
                                  !.heap = [a \in Addr |-> [heap[a] EXCEPT !.alive = FALSE,
                                                                          !.data = <<>>]]],
                  refs, hist, "none", "clearCache")
    /\ atlas' = <<>>
    /\ cellSize' = cellSize
    /\ sent' = <<>>
    /\ UNCHANGED view

\* renderer.clearCache():  atlas_.clear();
ClearCache ==
    /\ Running
    /\ \E m \in AtlasClear({Machine}, atlas) :
          LET f == IF m.fault = "bad_function_call" THEN "terminate" ELSE m.fault IN
          /\ CommitPool(m, MinusAll(refs, atlas), hist, f, "clearCache")
          /\ atlas' = <<>>
          /\ cellSize' = cellSize
          /\ sent' = <<>>
    /\ UNCHANGED view

\* ------------------------------------------------------------- inputs
SampleData(n) == [i \in 1..n |-> i % 256]

SampleColors(n) == [k \in 1..n |-> [red |-> 10 * k + 1, green |-> 10 * k + 2, blue |-> 10 * k + 3]]

Sizes == {[width |-> w, height |-> h] : w \in 0..MaxDim, h \in 0..MaxDim}

Pixels(size) == size.width * size.height

Near(n) == {k \in (n - MaxSlack)..(n + MaxSlack) : k >= 0}

UnitSize == [width |-> 1, height |-> 1]

UnitData == SampleData(BytesPerPixel)

\* ------------------------------------------------------ specifications
Init ==
    /\ heap = [a \in Addr |-> NoImage]
    /\ images = <<>>
    /\ refs = [p \in Ptr |-> 0]
    /\ fault = "none"
    /\ hist = Unwatched
    /\ last = [op |-> "init", res |-> "ok", torn |-> 0, oob |-> 0]
    /\ raster = NoRaster
    /\ frag = NoFragment
    /\ ret = NoRet
    /\ atlas = <<>>
    /\ cellSize = UnitSize
    /\ sent = <<>>

\* The pool and the handles to its Images.
Next ==
    \/ \E a \in Addr, w \in BOOLEAN : PoolCreate(a, UnitData, UnitSize, w)
    \/ \E p \in Ptr : Destroy(p)
    \/ \E p \in Ptr : CopyConstruct(p)
    \/ \E p \in Ptr : MoveConstruct(p)
    \/ \E p \in Ptr, q \in Ptr : CopyAssign(p, q)
    \/ \E p \in Ptr : SelfAssign(p)
    \/ \E p \in Ptr, q \in Ptr : MoveAssign(p, q)
    \/ \E a \in Addr : RefFromImage(a)
    \/ \E a \in Addr : PoolRemove(a)

Spec == Init /\ [][Next]_vars

\* Images the client constructs itself, their ref / unref, and handles to
\* them.
NextImage ==
    \/ \E a \in Addr, d \in {"none", "custom"} : NewImage(a, UnitData, UnitSize, d)
    \/ \E a \in Addr : DeleteImage(a)
    \/ \E a \in Addr : ImageRefCall(a)
    \/ \E a \in Addr : ImageUnrefCall(a)
    \/ \E a \in Addr : RefFromImage(a)
    \/ \E p \in Ptr : CopyConstruct(p)
    \/ \E p \in Ptr : Destroy(p)

SpecImage == Init /\ [][NextImage]_vars

\* The two create overloads over every size up to MaxDim x MaxDim and
\* every buffer / colour-array length within MaxSlack of the matching one,
\* in a pool that holds any number of 1x1 Images besides.
OnlyUnitImages ==
    \A b \in Addr : heap[b].alive => heap[b].size = UnitSize /\ heap[b].data = UnitData

NextCreate ==
    \/ \E a \in Addr : PoolCreate(a, UnitData, UnitSize, FALSE)
    \/ /\ OnlyUnitImages
       /\ \E a \in Addr, size \in Sizes :
             \E n \in Near(Pixels(size) * BytesPerPixel) :
                PoolCreate(a, SampleData(n), size, FALSE)
    \/ /\ OnlyUnitImages
       /\ \E a \in Addr, size \in Sizes :
             \E n \in Near(Pixels(size)) : PoolCreateRGB(a, SampleColors(n), size, FALSE)
    \/ \E p \in Ptr : Destroy(p)

SpecCreate == Init /\ [][NextCreate]_vars

\* The sizes of the Images that have pixels.
PixelSizes == {size \in Sizes : Pixels(size) > 0}

\* One Image and the fragments cut from it directly, with every offset and
\* size up to MaxDim.
Offsets == {[row |-> r, column |-> c] : r \in 0..MaxDim, c \in 0..MaxDim}

NextFragment ==
    \/ /\ images = <<>>
       /\ \E a \in Addr, size \in PixelSizes :
             PoolCreate(a, SampleData(Pixels(size) * BytesPerPixel), size, FALSE)
    \/ \E a \in Addr, offset \in Offsets, size \in Sizes : NewFragment(a, offset, size)
    \/ FragmentDataCall
    \/ DropFragment
    \/ \E p \in Addr : ViewRefs(p) < refs[p] /\ Destroy(p)

SpecFragment == Init /\ [][NextFragment]_vars

\* One RasterizedImage over every Image size from 1x1 up to MaxDim and every cell
\* span up to MaxSpan, the 8x8 Image on 2x2 cells besides, and the
\* fragments of every position from -1 to MaxSpan.
Spans == {[width |-> w, height |-> h] : w \in 0..MaxSpan, h \in 0..MaxSpan}

Positions == {[row |-> r, column |-> c] : r \in (-1)..MaxSpan, c \in (-1)..MaxSpan}

BlockSize == [width |-> 8, height |-> 8]

BlockSpan == [width |-> 2, height |-> 2]

NextRaster ==
    \/ \E a \in Addr, size \in PixelSizes, span \in Spans :
          CreateRaster(a, SampleData(Pixels(size) * BytesPerPixel), size, span)
    \/ \E a \in Addr :
          CreateRaster(a, SampleData(Pixels(BlockSize) * BytesPerPixel), BlockSize, BlockSpan)
    \/ RasterCellSize
    \/ \E pos \in Positions : RasterFragment(pos)
    \/ FragmentDataCall
    \/ DropFragment
    \/ DropRaster

SpecRaster == Init /\ [][NextRaster]_vars

\* The renderer over a pool of 1x1 Images: render requests with every
\* offset and extent up to MaxDim, cell sizes up to MaxDim.
NextRender ==
    \/ \E a \in Addr : PoolCreate(a, UnitData, UnitSize, FALSE)
    \/ \E p \in Ptr : Destroy(p)
    \/ \E p \in Ptr : CopyConstruct(p)
    \/ \E a \in Addr, offset \in Offsets, extent \in Sizes : RenderImage(a, offset, extent)
    \/ \E size \in Sizes : SetCellSize(size)
    \/ ClearCache

SpecRender == Init /\ [][NextRender]_vars

\* ------------------------------------------------------------- claims
Stored(a) == InPool(images, a)

Matching(size) == Pixels(size) * BytesPerPixel

\* The Images alive before a step are what they were after it.
LiveImagesSame == \A a \in Addr : heap[a].alive => heap'[a] = heap[a]

\* C1: an Image of the pool that a constructed handle points to is stored
\* in the pool, whatever create / copy / move / assign / destroy / remove
\* calls were made.
C1_HandleImageStored ==
    \A a \in Addr : (Held(a) /\ heap[a].deleter = "pool") => Stored(a)

\* C2: an Image returned by create that has since seen N handle copy
\* constructions and M handle destructions, N >= M, and nothing else, has
\* refCount() = 1 + N - M.
C2_RefCountIsOnePlusCopiesMinusDestroys ==
    (hist.a # Null /\ Stored(hist.a) /\ hist.copies >= hist.destroys)
        => heap[hist.a].refCount = 1 + hist.copies - hist.destroys

C2_Witness ==
    /\ hist.a # Null
    /\ Stored(hist.a)
    /\ hist.copies >= 1
    /\ hist.destroys >= 1

\* C3: a handle operation that unrefs a stored Image (its destruction, a
\* copy assignment over it) invokes the deleter exactly when the count was
\* 1, once, within the operation, and the Image is then gone from the pool
\* with imageCount() one less; otherwise the Image stays.  No operation
\* tears down twice or takes more than one Image out of the pool.
C3_TeardownOnceAtZero ==
    [][/\ \A a \in Addr :
             (/\ last'.op \in {"destroy", "assign"}
              /\ fault' = "none"
              /\ Stored(a)
              /\ (Destroy(a) \/ \E q \in Ptr : CopyAssign(a, q)))
                 => IF heap[a].refCount = 1
                    THEN /\ last'.torn = 1
                         /\ ~InPool(images', a)
                         /\ imageCount' = imageCount - 1
                    ELSE /\ last'.torn = 0
                         /\ images' = images
       /\ last'.torn <= 1
       /\ fault' = "none" => Len(images') >= Len(images) - 1]_vars

C3_Witness ==
    /\ last.op = "destroy"
    /\ last.torn = 1
    /\ fault = "none"
    /\ Len(images) = 1
    /\ \A a \in Addr : Held(a) => Stored(a)

\* C4: create(buffer, size) with buffer.length = width * height * 4
\* succeeds, imageCount() grows by one, and the Images stored before are
\* stored after, in place and unchanged.
C4_CreateMatchingAddsOne ==
    [][\A a \in Addr, size \in Sizes, w \in BOOLEAN :
          PoolCreate(a, SampleData(Matching(size)), size, w)
              => /\ last'.res = "ok"
                 /\ imageCount' = imageCount + 1
                 /\ images'[Len(images')] = a
                 /\ SubSeq(images', 1, Len(images)) = images
                 /\ LiveImagesSame]_vars

C4_Witness ==
    /\ last.op = "create"
    /\ last.res = "ok"
    /\ Len(images) = 2
    /\ LET img == heap[images[2]] IN
       /\ Len(img.data) = Matching(img.size)
       /\ img.size = [width |-> 2, height |-> 2]

\* C5: no create(buffer, size) with buffer.length # width * height * 4
\* puts an Image into the pool: every stored Image has a buffer of
\* width * height * 4 bytes.
C5_MismatchedCreateRejected ==
    \A a \in Addr : Stored(a) => Len(heap[a].data) = Matching(heap[a].size)

\* C6: the reference count of an Image is never negative.
C6_RefCountNeverNegative ==
    \A a \in Addr : heap[a].alive => heap[a].refCount >= 0

\* C7: move construction and move assignment change no Image and invoke no
\* deleter; the handle moved from is afterwards a null handle (one more
\* handle holds null, the handles holding the moved pointer are as many as
\* before); destroying a null handle changes no Image, invokes no deleter
\* and leaves the pool as it was.
C7_MoveKeepsCounts ==
    [][/\ \A p \in Ptr :
             (last'.op = "move" /\ MoveConstruct(p))
                 => /\ LiveImagesSame
                    /\ images' = images
                    /\ last'.torn = 0
                    /\ refs' = Plus(refs, Null)
       /\ \A p \in Ptr, q \in Ptr :
             (last'.op = "move_assign" /\ MoveAssign(p, q))
                 => /\ LiveImagesSame
                    /\ images' = images
                    /\ last'.torn = 0
                    /\ refs' = Plus(Minus(refs, p), Null)
       /\ (last'.op = "destroy_empty" /\ Destroy(Null))
             => /\ LiveImagesSame
                /\ images' = images
                /\ last'.torn = 0
                /\ refs' = Minus(refs, Null)]_vars

C7_Witness ==
    /\ last.op = "destroy_empty"
    /\ \E a \in Addr : Stored(a) /\ Held(a) /\ heap[a].refCount = 1 /\ refs[a] = 1

\* C8: remove(image) for an Image that is not stored in the pool changes
\* nothing: the pool holds the same Images in the same order.
C8_RemoveAbsentIsNoOp ==
    [][\A a \in Addr :
          (last'.op = "remove_miss" /\ ~Stored(a) /\ PoolRemove(a))
              => /\ images' = images
                 /\ LiveImagesSame
                 /\ fault' = "none"]_vars

C8_Witness ==
    /\ last.op = "remove_miss"
    /\ Len(images) >= 1

\* C9: create(colors, size) with colors.length = width * height stores an
\* Image of that size with a buffer of width * height * 4 bytes, pixel k
\* holding colour k's red, green, blue and then 255.
C9_ColorsExpandToOpaqueRGBA ==
    [][\A a \in Addr, size \in Sizes, w \in BOOLEAN :
          PoolCreateRGB(a, SampleColors(Pixels(size)), size, w)
              => /\ last'.res = "ok"
                 /\ heap'[a].size = size
                 /\ Len(heap'[a].data) = Matching(size)
                 /\ \A k \in 1..Pixels(size) :
                       LET i == BytesPerPixel * (k - 1)
                           c == SampleColors(Pixels(size))[k] IN
                       /\ heap'[a].data[i + 1] = c.red
                       /\ heap'[a].data[i + 2] = c.green
                       /\ heap'[a].data[i + 3] = c.blue
                       /\ heap'[a].data[i + 4] = Opaque]_vars

C9_Witness ==
    /\ last.op = "createRGB"
    /\ last.res = "ok"
    /\ Len(images) >= 1
    /\ LET img == heap[images[Len(images)]] IN
       /\ img.size = [width |-> 2, height |-> 2]
       /\ img.data[13] = SampleColors(4)[4].red
       /\ img.data[16] = Opaque

\* C10: create(colors, size) with colors.length # width * height fails with
\* SizeMismatch, writes no byte outside the buffer and leaves the pool as
\* it was.
C10_ColorCountMismatchRejected ==
    [][\A a \in Addr, size \in Sizes, w \in BOOLEAN :
          \A n \in Near(Pixels(size)) \ {Pixels(size)} :
             PoolCreateRGB(a, SampleColors(n), size, w)
                 => /\ last'.res = "SizeMismatch"
                    /\ last'.oob = 0
                    /\ images' = images]_vars

\* The rectangle of the fragment lies inside its parent Image.
FragmentInside ==
    /\ frag.offset.row >= 0
    /\ frag.offset.column >= 0
    /\ frag.offset.row + frag.size.height <= heap[frag.image].size.height
    /\ frag.offset.column + frag.size.width <= heap[frag.image].size.width

\* C11: data() of a fragment (inside its parent) is a buffer of
\* size.width * size.height * 4 bytes whose row y is the size.width * 4
\* bytes of the parent's buffer from index (offset.row + y) * parentWidth * 4.
C11_FragmentRowsFromOffsetRow ==
    (last.op = "data" /\ fault = "none" /\ frag.live /\ FragmentInside)
        => LET full == heap[frag.image].data
               rowBytes == frag.size.width * BytesPerPixel
               stride == heap[frag.image].size.width * BytesPerPixel IN
           /\ Len(ret.data) = frag.size.height * rowBytes
           /\ \A y \in 0..(frag.size.height - 1), x \in 1..rowBytes :
                 ret.data[y * rowBytes + x] = full[(frag.offset.row + y) * stride + x]

\* The cells of the raster, and the fragment fragment(pos) builds for one.
Cells ==
    {pos \in Positions : /\ 0 <= pos.row /\ pos.row < raster.cellSpan.height
                         /\ 0 <= pos.column /\ pos.column < raster.cellSpan.width}

CellFragment(pos) ==
    [live |-> TRUE, image |-> raster.image,
     offset |-> [row |-> pos.row * heap[raster.image].size.width,
                 column |-> pos.column
                     * (heap[raster.image].size.width \div raster.cellSpan.width)],
     size |-> raster.cellSpan]

\* The pixels of cell pos: cellSize().height rows of cellSize().width
\* pixels, from the Image's row pos.row * cellSize().height and column
\* pos.column * cellSize().width on.
CellBlock(pos) ==
    LET full == heap[raster.image].data
        width == heap[raster.image].size.width
        cw == width \div raster.cellSpan.width
        ch == heap[raster.image].size.height \div raster.cellSpan.height IN
    [k \in 1..(cw * ch * BytesPerPixel) |->
        LET y == (k - 1) \div (cw * BytesPerPixel)
            x == (k - 1) % (cw * BytesPerPixel) IN
        full[((pos.row * ch + y) * width + pos.column * cw) * BytesPerPixel + x + 1]]

\* C12: when the Image's size is a multiple of the cellSpan (the 8x8
\* Image on 2x2 cells among them), data() of the fragment of a cell is,
\* byte for byte, that cell's block of pixels.
C12_FragmentIsCellBlock ==
    (/\ last.op = "data"
     /\ fault = "none"
     /\ raster.live
     /\ frag.live
     /\ raster.cellSpan.width > 0
     /\ raster.cellSpan.height > 0
     /\ heap[raster.image].size.width > 0
     /\ heap[raster.image].size.height > 0
     /\ heap[raster.image].size.width % raster.cellSpan.width = 0
     /\ heap[raster.image].size.height % raster.cellSpan.height = 0)
        => \A pos \in Cells : frag = CellFragment(pos) => ret.data = CellBlock(pos)

\* C13: fragment(pos) of a cell of the raster is defined, and data() of it
\* returns a buffer of cellSpan.width * cellSpan.height * 4 bytes.
C13_CellFragmentDataLength ==
    [][/\ \A pos \in Positions :
             (last'.op = "fragment" /\ pos \in Cells /\ RasterFragment(pos))
                 => (fault' = "none" /\ frag' = CellFragment(pos))
       /\ (/\ last'.op = "data"
           /\ raster.live
           /\ \E pos \in Cells : frag = CellFragment(pos)
           /\ FragmentDataCall)
             => /\ fault' = "none"
                /\ Len(ret'.data)
                       = raster.cellSpan.width * raster.cellSpan.height * BytesPerPixel]_vars

\* C14: fragment(pos) for a position that is no cell of the raster fails
\* with OutOfRange and returns no fragment.
C14_FragmentOutOfRangeFails ==
    [][\A pos \in Positions \ Cells :
          (last'.op = "fragment" /\ RasterFragment(pos))
              => (last'.res = "OutOfRange" /\ ~frag'.live)]_vars

\* C15: no ImageFragment exists whose rectangle lies outside its parent
\* Image (constructing one fails with OutOfBounds).
C15_FragmentWithinParent ==
    (frag.live /\ heap[frag.image].alive) => FragmentInside

\* C16: cellSize() is (imageWidth / spanWidth, imageHeight / spanHeight),
\* truncated, when both span components are positive; with a span
\* component of 0, cellSize() and fragment() fail with InvalidCellSpan.
C16_CellSizeTruncatesOrFails ==
    [][/\ (last'.op = "cellSize" /\ RasterCellSize)
             => IF raster.cellSpan.width > 0 /\ raster.cellSpan.height > 0
                THEN /\ fault' = "none"
                     /\ ret'.size =
                          [width |-> heap[raster.image].size.width \div raster.cellSpan.width,
                           height |-> heap[raster.image].size.height \div raster.cellSpan.height]
                ELSE last'.res = "InvalidCellSpan"
       /\ \A pos \in Positions :
             (/\ last'.op = "fragment"
              /\ raster.cellSpan.width = 0 \/ raster.cellSpan.height = 0
              /\ RasterFragment(pos))
                 => last'.res = "InvalidCellSpan"]_vars

\* C17: renderImage of a region that is not in the atlas cache asks the
\* allocator for the upload, caches the handle and then emits the draw
\* command; of a region that is cached, it emits the draw command alone.
C17_RenderUploadsThenDraws ==
    [][\A a \in Addr, offset \in Offsets, extent \in Sizes :
          (last'.op = "renderImage" /\ RenderImage(a, offset, extent))
              => IF InPool(atlas, a)
                 THEN sent' = <<"draw">> /\ atlas' = atlas
                 ELSE sent' = <<"upload", "draw">> /\ InPool(atlas', a)]_vars

HandlesCounted ==
    \A a \in Addr : IF Stored(a) THEN heap[a].refCount = refs[a] ELSE refs[a] = 0

\* C19: create and the ImageRef operations (construction from an Image,
\* copy and move construction, copy and move assignment, destruction) keep
\* refCount() of every stored Image equal to the number of handles that
\* denote it: holding before such an operation, it holds after it.
C19_RefCountIsHandleCount ==
    [][(/\ HandlesCounted
        /\ fault' = "none"
        /\ last'.op \notin {"remove", "remove_miss"})
          => \A a \in Addr : InPool(images', a) => heap'[a].refCount = refs'[a]]_vars

\* C20: an assignment (copy or move) to the last handle of a stored Image X
\* from a handle of another Image leaves X removed from the pool.
C20_AssignReleasesTarget ==
    [][\A p \in Addr, q \in Addr :
          (/\ last'.op \in {"assign", "move_assign"}
           /\ fault' = "none"
           /\ p # q
           /\ Stored(p)
           /\ Stored(q)
           /\ refs[p] = 1
           /\ heap[p].refCount = 1
           /\ CopyAssign(p, q) \/ MoveAssign(p, q))
              => ~InPool(images', p)]_vars

C22_CellFragmentReadsInside ==
    (/\ last.op = "data"
     /\ fault = "none"
     /\ raster.live
     /\ frag.live
     /\ raster.cellSpan.width > 0
     /\ raster.cellSpan.height > 0
     /\ \E pos \in Cells : frag = CellFragment(pos))
        => last.oob = 0

\* C23: for an Image constructed without a deleter, the unref() that takes
\* the count from 1 to 0 (called directly, or by the destruction of its
\* last handle) completes without an error.
C23_NoDeleterUnrefCompletes ==
    [][\A a \in Addr :
          (/\ last'.op \in {"unref", "destroy"}
           /\ heap[a].alive
           /\ heap[a].deleter = "none"
           /\ heap[a].refCount = 1
           /\ ImageUnrefCall(a) \/ Destroy(a))
              => (fault' = "none" /\ last'.res = "ok")]_vars

\* C24: copy construction from a null (moved-from) handle, copy assignment
\* from one and copy assignment to one never end in a null pointer
\* dereference.
C24_NoNullDereference ==
    [][(/\ last'.op \in {"copy", "assign"}
        /\ CopyConstruct(Null) \/ \E p \in Ptr : (CopyAssign(p, Null) \/ CopyAssign(Null, p)))
          => last'.res # "null_deref"]_vars

====
